---- MODULE Spec2Model ----
(***************************************************************************)
(* A model of hangups' conversation store (hangups/conversation.py), its   *)
(* HTTP transport (hangups/http_utils.py) and the request path of the      *)
(* client (hangups/client.py).                                             *)
(*                                                                         *)
(* Spec         the conversation store: seeding, push updates, resync.     *)
(* SpecOrdered  the same store when the push channel delivers its events   *)
(*              with non-decreasing timestamps.                            *)
(* SpecFlows    the same store with _sync taken statement by statement,    *)
(*              scheduled by the event loop with the push handler and      *)
(*              the other resync.                                          *)
(* SpecTrace    the same store, remembering the response that the last     *)
(*              resync processed.                                          *)
(* SpecUpdates  the same store, remembering what its last handler was      *)
(*              given: a push update, or the reply to syncallnewevents.    *)
(* SpecRequest  one call of Client._request, down to http_utils.fetch.     *)
(* SpecCall     one call of a raw API method that checks the status        *)
(*              inside the response body.                                  *)
(* SpecConnect  Client.connect on any bootstrap page, and the life of the  *)
(*              connection after it.                                       *)
(* SpecConnectFair  the same, where a started call of setpresence or       *)
(*              setactiveclient ends.                                      *)
(* SpecDisconnect  the same connection with calls of Client.disconnect.    *)
(***************************************************************************)
EXTENDS Integers, Sequences, FiniteSets, TLC

(***************************************************************************)
(* Bounds of the model.                                                    *)
(***************************************************************************)
\* The server holds the events 1..NumEvents.
NumEvents == 3
\* The logs of the store hold at most this many entries in all (guards).
MaxEvents == 2

ConvIds == {"c1", "c2"}
\* Conversation names: the seed's snapshots carry the first, every later
\* snapshot (pushed or returned by a sync) the second.
SeedName == "n1"
UpdateName == "n2"
\* The two observers that start a resync (conversation.py:121-122).
SyncFlows == {"on_connect", "on_reconnect"}

VARIABLES
    conv_dict,       \* ConversationList._conv_dict: conv_id -> Conversation
    sync_timestamp,  \* ConversationList._sync_timestamp (the watermark)
    sync_pc,         \* per resync flow: idle, or awaiting syncallnewevents
    flow,            \* per resync flow: where it is in the loop of _sync
    fired,           \* the notifications fired by the last handler, in order
    pushed,          \* history: events the push path has appended to a log
    last_push,       \* SpecOrdered: timestamp of the last pushed event
    last_res         \* SpecTrace: the response the last resync processed,
                     \* forgotten when a push update arrives

VARIABLES
    cookies,         \* the names of the cookies in Client._cookies
    req_pc,          \* Client._request: start, request, read, done
    attempt_log,     \* history: how each attempt of fetch ended
    error_msg,       \* fetch's error_msg
    res_status,      \* fetch's res.status, 0 before any response
    outcome,         \* how _request ended: what it returned or raised
    raised_msg       \* the message of the raised NetworkError

VARIABLES
    method,          \* the raw API method of Client that is running
    request_no,      \* which of the method's requests is on its way
    body,            \* the body of the last response the method looked at
    call_outcome     \* how the method ended: what it returned or raised

VARIABLES
    doc,             \* the bootstrap page: what each data segment holds
    conn_pc,         \* Client.connect: start, listening, failed
    conn_raised,     \* what connect raised
    initial_data,    \* <<>>, or <<the InitialData of _initialize_chat>>
    channel,         \* Client._channel: None, created, connected, ...
    announce,        \* the callback chain that announces the client
    life_log,        \* history: the steps of the connection, in order
    leave,           \* history: the calls of Client.disconnect, each with
                     \* the channel it found and the steps of its chain
    session          \* the client's session fields: _api_key, ...

store_vars == <<conv_dict, sync_timestamp, sync_pc, flow, fired, pushed,
                last_push, last_res>>
req_vars == <<cookies, req_pc, attempt_log, error_msg, res_status, outcome,
              raised_msg>>
call_vars == <<method, request_no, body, call_outcome>>
conn_vars == <<doc, conn_pc, conn_raised, initial_data, channel, announce,
               life_log, leave, session>>
client_vars == <<call_vars, conn_vars>>
vars == <<conv_dict, sync_timestamp, sync_pc, flow, fired, pushed, last_push,
          last_res, cookies, req_pc, attempt_log, error_msg, res_status,
          outcome, raised_msg, method, request_no, body, call_outcome,
          doc, conn_pc, conn_raised, initial_data, channel, announce,
          life_log, leave, session>>

(***************************************************************************)
(* Data: ClientEvent, ClientConversation, ClientConversationState.        *)
(***************************************************************************)
\* The server's events are numbered in the order of their timestamps and
\* alternate between the conversations: 1 is c1's at time 1, 2 is c2's at
\* time 1, 3 is c1's at time 2, ...
ConvOf(i) == IF i % 2 = 1 THEN "c1" ELSE "c2"
TsOf(i) == (i + 1) \div 2
Timestamps == 0..TsOf(NumEvents)

\* The payload fields a ClientEvent has populated, fixed per event.
PayloadOf(i) ==
    IF i % 4 = 1 THEN {"chat_message"}
    ELSE IF i % 4 = 2 THEN {"conversation_rename", "membership_change"}
    ELSE IF i % 4 = 3 THEN {"membership_change"}
    ELSE {}

ClientEvent(i) ==
    [event_id |-> i, conversation_id |-> ConvOf(i), timestamp |-> TsOf(i),
     payload |-> PayloadOf(i)]

ClientEvents == {ClientEvent(i) : i \in 1..NumEvents}
EventsOf(c) == {e \in ClientEvents : e.conversation_id = c}

ClientConversation(c, n) == [conversation_id |-> c, name |-> n]

\* Sequences of at most n distinct elements of S.
RECURSIVE DistinctSeqs(_, _)
DistinctSeqs(S, n) ==
    IF n = 0 THEN {<<>>}
    ELSE LET shorter == DistinctSeqs(S, n - 1)
         IN  shorter \cup
             {Append(p[1], p[2]) :
                p \in {q \in shorter \X S :
                        \A i \in 1..Len(q[1]) : q[1][i] # q[2]}}

\* ClientConversationState: a snapshot and events of that conversation.
ConvStatesOf(c, n) ==
    {[conversation |-> ClientConversation(c, n), event |-> evs] :
        evs \in DistinctSeqs(EventsOf(c), Cardinality(EventsOf(c)))}

\* Lists of at most k conversation states of distinct conversations.
RECURSIVE ConvStateSeqs(_, _)
ConvStateSeqs(n, k) ==
    IF k = 0 THEN {<<>>}
    ELSE LET shorter == ConvStateSeqs(n, k - 1)
         IN  shorter \cup
             {Append(p[1], p[2]) :
                p \in {q \in shorter \X UNION {ConvStatesOf(c, n) : c \in ConvIds} :
                        \A i \in 1..Len(q[1]) :
                            q[1][i].conversation.conversation_id
                                # q[2].conversation.conversation_id}}

ConvStateLists(n) == ConvStateSeqs(n, Cardinality(ConvIds))

\* ClientSyncAllNewEventsResponse.conversation_state
Responses == ConvStateLists(UpdateName)

\* ClientStateUpdate: each field is <<>> (None) or <<value>>; the push
\* channel populates at most one field of an update.
Optional(S) == {<<>>} \cup {<<x>> : x \in S}
StateUpdates ==
    {su \in [client_conversation :
                Optional({ClientConversation(c, UpdateName) : c \in ConvIds}),
             typing_notification : Optional([conversation_id : ConvIds]),
             event_notification : Optional([event : ClientEvents])] :
        Len(su.client_conversation) + Len(su.typing_notification)
            + Len(su.event_notification) <= 1}

(***************************************************************************)
(* parsers.from_timestamp: microseconds since the epoch to a datetime. The *)
(* model counts time in ticks, and the conversion keeps the order.         *)
(***************************************************************************)
FromTimestamp(t) == t

(***************************************************************************)
(* Conversation                                                            *)
(***************************************************************************)
\* Conversation.add_event, lines 41-48: the ConversationEvent subclass.
Classify(event_) ==
    IF "chat_message" \in event_.payload THEN "ChatMessageEvent"
    ELSE IF "conversation_rename" \in event_.payload THEN "RenameEvent"
    ELSE IF "membership_change" \in event_.payload
         THEN "MembershipChangeEvent"
    ELSE "ConversationEvent"

ConvEvent(event_) == [type |-> Classify(event_), event |-> event_]

\* Conversation.add_event: the conversation with the event appended.
AddEvent(conv, event_) ==
    [conv EXCEPT !.events = Append(@, ConvEvent(event_))]

RECURSIVE AddEvents(_, _, _)
AddEvents(conv, client_events, i) ==
    IF i > Len(client_events) THEN conv
    ELSE AddEvents(AddEvent(conv, client_events[i]), client_events, i + 1)

\* Conversation.__init__: a fresh object holding the given events.
NewConversation(client_conversation, client_events) ==
    AddEvents([conversation |-> client_conversation, events |-> <<>>],
              client_events, 1)

\* Conversation.update_conversation
UpdateConversation(conv, client_conversation) ==
    [conv EXCEPT !.conversation = client_conversation]

(***************************************************************************)
(* ConversationList. A store state st is a record of conv_dict,            *)
(* sync_timestamp, fired (the notifications fired so far by the running    *)
(* handler) and made (the ids for which the running handler constructed a  *)
(* Conversation object).                                                   *)
(***************************************************************************)
Put(cd, conv_id, conv) ==
    [c \in (DOMAIN cd) \cup {conv_id} |-> IF c = conv_id THEN conv ELSE cd[c]]

Notification(bus, conv_id, arg) == [bus |-> bus, conv |-> conv_id, arg |-> arg]

\* ConversationList.add_conversation: a Conversation is constructed (line
\* 146) and registered under its id, whatever was registered there.
AddConversation(st, client_conversation, client_events) ==
    [st EXCEPT
        !.conv_dict =
            Put(@, client_conversation.conversation_id,
                NewConversation(client_conversation, client_events)),
        !.made = Append(@, client_conversation.conversation_id)]

\* Mutant: the watermark only ever moves forward.
OnClientEventMax(st, event_) ==
    LET conv_id == event_.conversation_id
        t == FromTimestamp(event_.timestamp)
        moved == [st EXCEPT !.sync_timestamp = IF t > @ THEN t ELSE @]
    IN  IF conv_id \notin DOMAIN st.conv_dict
        THEN moved
        ELSE LET conv_event == ConvEvent(event_)
             IN  [moved EXCEPT
                    !.conv_dict[conv_id].events = Append(@, conv_event),
                    !.fired = @ \o
                        <<Notification("ConversationList.on_event",
                                       conv_id, conv_event),
                          Notification("Conversation.on_event",
                                       conv_id, conv_event)>>]

\* Mutant: the watermark moves only once the conversation is found.
OnClientEventKnownOnly(st, event_) ==
    LET conv_id == event_.conversation_id
    IN  IF conv_id \notin DOMAIN st.conv_dict
        THEN st
        ELSE LET conv_event == ConvEvent(event_)
             IN  [st EXCEPT
                    !.sync_timestamp = FromTimestamp(event_.timestamp),
                    !.conv_dict[conv_id].events = Append(@, conv_event),
                    !.fired = @ \o
                        <<Notification("ConversationList.on_event",
                                       conv_id, conv_event),
                          Notification("Conversation.on_event",
                                       conv_id, conv_event)>>]

\* ConversationList._on_client_event
OnClientEvent(st, event_) ==
    LET conv_id == event_.conversation_id
        moved == [st EXCEPT
                    !.sync_timestamp = FromTimestamp(event_.timestamp)]
    IN  IF conv_id \notin DOMAIN st.conv_dict
        THEN moved
        ELSE LET conv == AddEvent(st.conv_dict[conv_id], event_)
                 conv_event == conv.events[Len(conv.events)]
             IN  [moved EXCEPT
                    !.conv_dict = Put(@, conv_id, conv),
                    !.fired = @ \o
                        <<Notification("ConversationList.on_event",
                                       conv_id, conv_event),
                          Notification("Conversation.on_event",
                                       conv_id, conv_event)>>]

\* Mutant: every snapshot registers a fresh conversation.
HandleClientConversationFresh(st, client_conversation) ==
    AddConversation(st, client_conversation, <<>>)

\* ConversationList._handle_client_conversation
HandleClientConversation(st, client_conversation) ==
    LET conv_id == client_conversation.conversation_id
    IN  IF conv_id \in DOMAIN st.conv_dict
        THEN [st EXCEPT !.conv_dict[conv_id] =
                            UpdateConversation(@, client_conversation)]
        ELSE AddConversation(st, client_conversation, <<>>)

\* Mutant: the store-wide bus fires before the conversation is looked up.
HandleSetTypingNotificationGlobal(st, set_typing_notification) ==
    LET conv_id == set_typing_notification.conversation_id
        res == [type |-> "TypingStatusMessage", conv_id |-> conv_id]
        told == [st EXCEPT !.fired = @ \o
                    <<Notification("ConversationList.on_typing",
                                   conv_id, res)>>]
    IN  IF conv_id \in DOMAIN st.conv_dict
        THEN [told EXCEPT !.fired = @ \o
                <<Notification("Conversation.on_typing", conv_id, res)>>]
        ELSE told

\* ConversationList._handle_set_typing_notification
HandleSetTypingNotification(st, set_typing_notification) ==
    LET conv_id == set_typing_notification.conversation_id
        res == [type |-> "TypingStatusMessage", conv_id |-> conv_id]
    IN  IF conv_id \in DOMAIN st.conv_dict
        THEN [st EXCEPT !.fired = @ \o
                <<Notification("ConversationList.on_typing", conv_id, res),
                  Notification("Conversation.on_typing", conv_id, res)>>]
        ELSE st

\* ConversationList._on_state_update: the three branches, in this order.
OnStateUpdate(st, state_update) ==
    LET s1 == IF state_update.client_conversation # <<>>
              THEN HandleClientConversation(
                       st, state_update.client_conversation[1])
              ELSE st
        s2 == IF state_update.typing_notification # <<>>
              THEN HandleSetTypingNotification(
                       s1, state_update.typing_notification[1])
              ELSE s1
    IN  IF state_update.event_notification # <<>>
        THEN OnClientEvent(s2, state_update.event_notification[1].event)
        ELSE s2

\* Mutants of the filter: none at all, and one that lets ties through.
SyncFilterNone(timestamp, watermark) == TRUE

SyncFilterAtOrAfter(timestamp, watermark) == timestamp >= watermark

\* ConversationList._sync, line 215: the filter on a returned event.
SyncFilter(timestamp, watermark) == timestamp > watermark

\* ConversationList._sync, lines 213-218: the events of a known conversation.
RECURSIVE SyncEvents(_, _, _)
SyncEvents(st, events, i) ==
    IF i > Len(events) THEN st
    ELSE LET event_ == events[i]
             timestamp == FromTimestamp(event_.timestamp)
         IN  SyncEvents(IF SyncFilter(timestamp, st.sync_timestamp)
                        THEN OnClientEvent(st, event_)
                        ELSE st,
                        events, i + 1)

\* Mutant: a known conversation is registered afresh with the returned events.
SyncConvStateRewind(st, conv_state) ==
    AddConversation(st, conv_state.conversation, conv_state.event)

\* ConversationList._sync, lines 209-221: one conversation state.
SyncConvState(st, conv_state) ==
    LET conv_id == conv_state.conversation.conversation_id
    IN  IF conv_id \in DOMAIN st.conv_dict
        THEN SyncEvents(
                 [st EXCEPT !.conv_dict[conv_id] =
                     UpdateConversation(@, conv_state.conversation)],
                 conv_state.event, 1)
        ELSE AddConversation(st, conv_state.conversation, conv_state.event)

\* ConversationList._sync, lines 208-221: a successful response.
RECURSIVE SyncApply(_, _, _)
SyncApply(st, conversation_state, i) ==
    IF i > Len(conversation_state) THEN st
    ELSE SyncApply(SyncConvState(st, conversation_state[i]),
                   conversation_state, i + 1)

\* ConversationList.__init__, lines 107-115.
RECURSIVE SeedConversations(_, _, _)
SeedConversations(st, conv_states, i) ==
    IF i > Len(conv_states) THEN st
    ELSE SeedConversations(
             AddConversation(st, conv_states[i].conversation,
                             conv_states[i].event),
             conv_states, i + 1)

ConversationListInit(conv_states, timestamp) ==
    SeedConversations([conv_dict |-> <<>>, sync_timestamp |-> timestamp,
                       fired |-> <<>>, made |-> <<>>], conv_states, 1)

(***************************************************************************)
(* The store as a state machine.                                           *)
(***************************************************************************)
RECURSIVE TotalEvents(_, _)
TotalEvents(cd, ids) ==
    IF ids = {} THEN 0
    ELSE LET c == CHOOSE x \in ids : TRUE
         IN  Len(cd[c].events) + TotalEvents(cd, ids \ {c})

StoreSize(cd) == TotalEvents(cd, DOMAIN cd)

\* The store as a handler finds it: no notification fired yet, no object
\* constructed yet.
Store == [conv_dict |-> conv_dict, sync_timestamp |-> sync_timestamp,
          fired |-> <<>>, made |-> <<>>]

NoResponse == [valid |-> FALSE, res |-> <<>>]
Processed(res) == [valid |-> TRUE, res |-> res]

Idle == [state |-> "idle", timestamp |-> 0]

\* A flow that is not inside the loop of lines 208-221.
Out == [pc |-> "out", res |-> <<>>, k |-> 0, i |-> 0, seen |-> <<>>]
Awaiting(timestamp) == [state |-> "awaiting", timestamp |-> timestamp]

\* The bootstrap's conversation states: each log oldest to newest, and no
\* event newer than the bootstrap's sync timestamp.
SeedLists(timestamp) ==
    {css \in ConvStateLists(SeedName) :
        \A k \in 1..Len(css) :
            /\ \A i \in 1..Len(css[k].event) :
                    css[k].event[i].timestamp <= timestamp
            /\ \A i, j \in 1..Len(css[k].event) :
                    i < j => css[k].event[i].timestamp
                                < css[k].event[j].timestamp}

InitStore ==
    \E timestamp \in Timestamps :
        \E conv_states \in SeedLists(timestamp) :
            LET st == ConversationListInit(conv_states, timestamp)
            IN  /\ StoreSize(st.conv_dict) <= MaxEvents
                /\ conv_dict = st.conv_dict
                /\ sync_timestamp = st.sync_timestamp
                /\ fired = <<>>
                /\ sync_pc = [f \in SyncFlows |-> Idle]
                /\ flow = [f \in SyncFlows |-> Out]
                /\ pushed = {}
                /\ last_push = 0
                /\ last_res = NoResponse

\* Client.on_state_update fires ConversationList._on_state_update.
PushStateUpdate(state_update) ==
    LET st == OnStateUpdate(Store, state_update)
    IN  /\ StoreSize(st.conv_dict) <= MaxEvents
        /\ conv_dict' = st.conv_dict
        /\ sync_timestamp' = st.sync_timestamp
        /\ fired' = st.fired
        /\ pushed' = IF StoreSize(st.conv_dict) > StoreSize(conv_dict)
                     THEN pushed \cup {state_update.event_notification[1].event}
                     ELSE pushed
        /\ UNCHANGED <<sync_pc, flow>>

\* on_connect / on_reconnect start ConversationList._sync, which runs to
\* its yield from at line 203.
SyncCall(f) ==
    /\ sync_pc[f].state = "idle"
    /\ sync_pc' = [sync_pc EXCEPT ![f] = Awaiting(sync_timestamp)]
    /\ fired' = <<>>
    /\ UNCHANGED <<conv_dict, sync_timestamp, flow, pushed, last_push,
                   last_res>>
    /\ UNCHANGED <<req_vars, client_vars>>

\* syncallnewevents returns: _sync runs lines 208-221 to its end.
SyncReturn(f, res) ==
    LET st == SyncApply(Store, res, 1)
    IN  /\ sync_pc[f].state = "awaiting"
        /\ StoreSize(st.conv_dict) <= MaxEvents
        /\ conv_dict' = st.conv_dict
        /\ sync_timestamp' = st.sync_timestamp
        /\ fired' = st.fired
        /\ sync_pc' = [sync_pc EXCEPT ![f] = Idle]
        /\ UNCHANGED <<flow, pushed, last_push>>
        /\ UNCHANGED <<req_vars, client_vars>>

\* syncallnewevents raises NetworkError: _sync logs it, lines 204-206.
SyncNetworkError(f) ==
    /\ sync_pc[f].state = "awaiting"
    /\ sync_pc' = [sync_pc EXCEPT ![f] = Idle]
    /\ fired' = <<>>
    /\ UNCHANGED <<conv_dict, sync_timestamp, flow, pushed, last_push,
                   last_res>>
    /\ UNCHANGED <<req_vars, client_vars>>

\* Conversation.send_message: the request succeeds or raises NetworkError;
\* either way the store is not touched.
SendMessage(conv_id) ==
    /\ conv_id \in DOMAIN conv_dict
    /\ fired' = <<>>
    /\ UNCHANGED <<conv_dict, sync_timestamp, sync_pc, flow, pushed,
                   last_push, last_res>>
    /\ UNCHANGED <<req_vars, client_vars>>

\* The push channel delivers updates in any order.
Push ==
    \E state_update \in StateUpdates :
        /\ PushStateUpdate(state_update)
        /\ UNCHANGED <<last_push, last_res>>
        /\ UNCHANGED <<req_vars, client_vars>>

\* The push channel delivers events with non-decreasing timestamps.
PushOrdered ==
    \E state_update \in StateUpdates :
        /\ PushStateUpdate(state_update)
        /\ IF state_update.event_notification = <<>>
           THEN UNCHANGED last_push
           ELSE LET t == state_update.event_notification[1].event.timestamp
                IN  t >= last_push /\ last_push' = t
        /\ UNCHANGED last_res
        /\ UNCHANGED <<req_vars, client_vars>>

PushTraced ==
    \E state_update \in StateUpdates :
        /\ PushStateUpdate(state_update)
        /\ last_res' = NoResponse
        /\ UNCHANGED last_push
        /\ UNCHANGED <<req_vars, client_vars>>

Sync ==
    \E f \in SyncFlows :
        \/ SyncCall(f)
        \/ \E res \in Responses : SyncReturn(f, res) /\ UNCHANGED last_res
        \/ SyncNetworkError(f)

SyncTraced ==
    \E f \in SyncFlows :
        \/ SyncCall(f)
        \/ \E res \in Responses :
                SyncReturn(f, res) /\ last_res' = Processed(res)
        \/ SyncNetworkError(f)

Send == \E conv_id \in ConvIds : SendMessage(conv_id)

(***************************************************************************)
(* SpecFlows: _sync statement by statement, under the event loop. A flow   *)
(* is at one of these positions:                                           *)
(*   out    not started, or at the yield from of line 203                  *)
(*   conv   at line 208, about to take the conversation state res[k]       *)
(*   event  at line 213, about to take the event i of that state and       *)
(*          to compare it with the watermark (line 215)                    *)
(*   apply  past the comparison, about to call _on_client_event (line 218) *)
(***************************************************************************)
\* Mutant: as if the loop gave up control between the comparison of line
\* 215 and the call of line 218.
SuspensionPointsInLoop == {"out", "apply"}

\* The positions at which a flow has given control back to the event loop:
\* _sync has one yield from, at line 203, and the handlers it calls are
\* plain functions.
SuspensionPoints == {"out"}

\* The event loop runs one callback or task step at a time: a flow, or the
\* push handler, runs only while every other flow is suspended.
MayRun(f) == \A g \in SyncFlows \ {f} : flow[g].pc \in SuspensionPoints
NoneRunning == \A g \in SyncFlows : flow[g].pc \in SuspensionPoints

\* _on_state_update is called by Client.on_state_update.fire.
FlowPush == NoneRunning /\ Push

\* on_connect or on_reconnect starts _sync, which runs to line 203.
FlowCall(f) == MayRun(f) /\ flow[f].pc = "out" /\ SyncCall(f)

\* syncallnewevents raises NetworkError, lines 204-206.
FlowNetworkError(f) ==
    MayRun(f) /\ flow[f].pc = "out" /\ SyncNetworkError(f)

\* syncallnewevents returns res: _sync is at line 208.
FlowReturn(f, res) ==
    /\ MayRun(f)
    /\ flow[f].pc = "out"
    /\ sync_pc[f].state = "awaiting"
    /\ StoreSize(SyncApply(Store, res, 1).conv_dict) <= MaxEvents
    /\ flow' = [flow EXCEPT ![f] =
                    [pc |-> "conv", res |-> res, k |-> 1, i |-> 0,
                     seen |-> <<>>]]
    /\ fired' = <<>>
    /\ UNCHANGED <<conv_dict, sync_timestamp, sync_pc, pushed, last_push,
                   last_res>>
    /\ UNCHANGED <<req_vars, client_vars>>

\* Lines 208-212 and 219-221: the next conversation state, or the end.
FlowConv(f) ==
    LET r == flow[f]
    IN  /\ MayRun(f)
        /\ r.pc = "conv"
        /\ IF r.k > Len(r.res)
           THEN /\ flow' = [flow EXCEPT ![f] = Out]
                /\ sync_pc' = [sync_pc EXCEPT ![f] = Idle]
                /\ UNCHANGED conv_dict
           ELSE LET conv_state == r.res[r.k]
                    conv_id == conv_state.conversation.conversation_id
                IN  IF conv_id \in DOMAIN conv_dict
                    THEN /\ conv_dict' =
                                [conv_dict EXCEPT ![conv_id] =
                                    UpdateConversation(
                                        @, conv_state.conversation)]
                         /\ flow' = [flow EXCEPT ![f].pc = "event",
                                                 ![f].i = 1]
                         /\ UNCHANGED sync_pc
                    ELSE /\ conv_dict' =
                                AddConversation(Store, conv_state.conversation,
                                                conv_state.event).conv_dict
                         /\ StoreSize(conv_dict') <= MaxEvents
                         /\ flow' = [flow EXCEPT ![f].k = @ + 1]
                         /\ UNCHANGED sync_pc
        /\ UNCHANGED <<sync_timestamp, fired, pushed, last_push, last_res>>
        /\ UNCHANGED <<req_vars, client_vars>>

\* Lines 213-215: the next event of the conversation state; its timestamp
\* is compared with the watermark as it is now.
FlowRead(f) ==
    LET r == flow[f]
        events == r.res[r.k].event
    IN  /\ MayRun(f)
        /\ r.pc = "event"
        /\ IF r.i > Len(events)
           THEN flow' = [flow EXCEPT ![f].pc = "conv", ![f].k = @ + 1]
           ELSE IF SyncFilter(FromTimestamp(events[r.i].timestamp),
                              sync_timestamp)
                THEN flow' = [flow EXCEPT
                        ![f].pc = "apply",
                        ![f].seen = <<[watermark |-> sync_timestamp,
                                       log |-> conv_dict[
                                           events[r.i].conversation_id
                                       ].events]>>]
                ELSE flow' = [flow EXCEPT ![f].i = @ + 1]
        /\ UNCHANGED <<conv_dict, sync_timestamp, sync_pc, fired, pushed,
                       last_push, last_res>>
        /\ UNCHANGED <<req_vars, client_vars>>

\* Line 218: _on_client_event for the event that passed the comparison.
FlowApply(f) ==
    LET r == flow[f]
        st == OnClientEvent([Store EXCEPT !.fired = fired],
                            r.res[r.k].event[r.i])
    IN  /\ MayRun(f)
        /\ r.pc = "apply"
        /\ StoreSize(st.conv_dict) <= MaxEvents
        /\ conv_dict' = st.conv_dict
        /\ sync_timestamp' = st.sync_timestamp
        /\ fired' = st.fired
        /\ flow' = [flow EXCEPT ![f].pc = "event", ![f].i = @ + 1,
                                ![f].seen = <<>>]
        /\ UNCHANGED <<sync_pc, pushed, last_push, last_res>>
        /\ UNCHANGED <<req_vars, client_vars>>

FlowSync ==
    \E f \in SyncFlows :
        \/ FlowCall(f)
        \/ FlowNetworkError(f)
        \/ \E res \in Responses : FlowReturn(f, res)

FlowStep == \E f \in SyncFlows : FlowConv(f) \/ FlowRead(f) \/ FlowApply(f)

(***************************************************************************)
(* Client._request and http_utils.fetch.                                   *)
(***************************************************************************)
MAX_RETRIES == 3

\* Client._request, line 256.
RequiredCookies == {"SAPISID", "HSID", "SSID", "APISID", "SID"}

\* The HTTP statuses a response may carry.
Statuses == {200, 201, 204, 304, 404, 500}

\* The two failures fetch catches (lines 37-40), and their messages.
Failures == {"TimeoutError", "ConnectionError"}
ErrorMsg(failure) ==
    IF failure = "TimeoutError" THEN "Request timed out"
    ELSE "Request connection error"

\* Mutant: only the cookie of the authorization header is looked up.
GetCookieRaisesHeaderOnly(cookie_dict) == "SAPISID" \notin cookie_dict

\* Client._get_cookie raises KeyError for one of the lookups that _request
\* makes: SAPISID for the authorization header (line 251, through line
\* 217), then each required cookie (lines 256-258).
GetCookieRaises(cookie_dict) ==
    \/ "SAPISID" \notin cookie_dict
    \/ \E cookie \in RequiredCookies : cookie \notin cookie_dict

\* Mutant: one attempt more.
LoopEndsLate(retry_num) == retry_num + 1 >= MAX_RETRIES + 1

\* fetch, line 30: retry_num was the last value of range(MAX_RETRIES).
LoopEnds(retry_num) == retry_num + 1 >= MAX_RETRIES

\* Mutant: every 2xx status is taken for a success.
UnexpectedStatusNon2xx(status) == status >= 300 \/ status < 200

\* fetch, line 49.
UnexpectedStatus(status) == status > 200 \/ status < 200

InitRequest ==
    /\ req_pc = "start"
    /\ attempt_log = <<>>
    /\ error_msg = "None"
    /\ res_status = 0
    /\ outcome = "none"
    /\ raised_msg = "None"

\* Client._request, lines 249-266: the headers and the cookies, then the
\* call of fetch, which runs to its first yield from (lines 28-35).
RequestStart ==
    /\ req_pc = "start"
    /\ IF GetCookieRaises(cookies)
       THEN /\ req_pc' = "done"
            /\ outcome' = "KeyError"
       ELSE /\ req_pc' = "request"
            /\ outcome' = outcome
    /\ UNCHANGED <<cookies, attempt_log, error_msg, res_status, raised_msg>>
    /\ UNCHANGED <<store_vars, client_vars>>

\* fetch, lines 37-48: the attempt failed. The loop goes on to the next
\* attempt, or ends and fetch raises NetworkError(error_msg).
AttemptFails(failure) ==
    /\ attempt_log' = Append(attempt_log, failure)
    /\ error_msg' = ErrorMsg(failure)
    /\ IF LoopEnds(Len(attempt_log))
       THEN /\ req_pc' = "done"
            /\ outcome' = "NetworkError"
            /\ raised_msg' = ErrorMsg(failure)
       ELSE /\ req_pc' = "request"
            /\ UNCHANGED <<outcome, raised_msg>>

\* fetch, lines 32-35: aiohttp.request returns a response.
FetchRequestReturns(status) ==
    /\ req_pc = "request"
    /\ req_pc' = "read"
    /\ res_status' = status
    /\ UNCHANGED <<cookies, attempt_log, error_msg, outcome, raised_msg>>
    /\ UNCHANGED <<store_vars, client_vars>>

\* fetch, lines 32-35: aiohttp.request times out or fails to connect.
FetchRequestFails(failure) ==
    /\ req_pc = "request"
    /\ AttemptFails(failure)
    /\ UNCHANGED <<cookies, res_status>>
    /\ UNCHANGED <<store_vars, client_vars>>

\* fetch, line 36, then lines 41-55: the body is read, the loop is left,
\* and fetch returns the response or raises for its status.
FetchReadReturns ==
    /\ req_pc = "read"
    /\ attempt_log' = Append(attempt_log, "completed")
    /\ error_msg' = "None"
    /\ req_pc' = "done"
    /\ IF UnexpectedStatus(res_status)
       THEN /\ outcome' = "NetworkError"
            /\ raised_msg' = "Request return unexpected status"
       ELSE /\ outcome' = "FetchResponse"
            /\ UNCHANGED raised_msg
    /\ UNCHANGED <<cookies, res_status>>
    /\ UNCHANGED <<store_vars, client_vars>>

\* fetch, line 36: reading the body times out or the connection fails.
FetchReadFails(failure) ==
    /\ req_pc = "read"
    /\ AttemptFails(failure)
    /\ UNCHANGED <<cookies, res_status>>
    /\ UNCHANGED <<store_vars, client_vars>>

FetchRequest ==
    \/ \E status \in Statuses : FetchRequestReturns(status)
    \/ \E failure \in Failures : FetchRequestFails(failure)

FetchRead ==
    \/ FetchReadReturns
    \/ \E failure \in Failures : FetchReadFails(failure)

(***************************************************************************)
(* Client._initialize_chat: the bootstrap page and what is read from it.   *)
(***************************************************************************)
\* The data segments the client reads (lines 163-197).
Namespaces == {"ds:2", "ds:4", "ds:7", "ds:19", "ds:20", "ds:21"}

\* The data segments a page may hold (line 152): those, and one that the
\* client does not read.
Segments == Namespaces \cup {"ds:1"}

\* What the page holds for a namespace:
\*   absent       no callback with that key
\*   garbled      a callback whose argument javascript.loads rejects
\*   short        decoded, but a position the client indexes does not exist
\*   undecodable  every position exists, but the schema rejects the value
\*                (of ds:21: the entities; its timestamp is readable)
\*   ok
SegmentKinds(ns) ==
    IF ns \notin Namespaces THEN {"absent", "garbled", "ok"}
    ELSE {"absent", "garbled", "short", "ok"}
            \cup (IF ns \in {"ds:19", "ds:20", "ds:21"}
                  THEN {"undecodable"} ELSE {})

\* The bootstrap: the outcome of the GET and, when it returned a page, the
\* segments of the page.
Docs ==
    {d \in [http : {"FetchResponse", "NetworkError"},
            segments : [Segments -> {"absent", "garbled", "short",
                                     "undecodable", "ok"}]] :
        /\ \A ns \in Segments : d.segments[ns] \in SegmentKinds(ns)
        /\ d.http = "NetworkError" =>
                \A ns \in Segments : d.segments[ns] = "absent"}

\* javascript.loads: ValueError for an argument it cannot decode.
JavascriptLoads(kind) == IF kind = "garbled" THEN "ValueError" ELSE "None"

\* schemas.<SCHEMA>.parse: ValueError for a value the schema rejects.
SchemaParse(kind) == IF kind = "undecodable" THEN "ValueError" ELSE "None"

\* Mutant: the try is around the loop, so the first segment that fails to
\* decode ends the collecting (here before anything was collected).
DataDictTryOutside(d) ==
    IF \E ns \in Segments : JavascriptLoads(d.segments[ns]) # "None"
    THEN {}
    ELSE {ns \in Segments : d.segments[ns] # "absent"}

\* Lines 151-159: the keys of data_dict. A segment that fails to decode is
\* logged and left out.
DataDict(d) ==
    {ns \in Segments :
        d.segments[ns] # "absent" /\ JavascriptLoads(d.segments[ns]) = "None"}

\* data_dict[ns][0]...: KeyError for a missing key, IndexError for a
\* position beyond the end of a decoded list.
Lookup(d, ns) ==
    IF ns \notin DataDict(d) THEN "KeyError"
    ELSE IF d.segments[ns] = "short" THEN "IndexError"
    ELSE "None"

\* The order in which lines 163-173 read the namespaces.
RequiredValues == <<"ds:7", "ds:2", "ds:4", "ds:21">>

\* The first lookup of lines 163-173 that raises, and what it raises.
RECURSIVE ExtractValues(_, _)
ExtractValues(d, i) ==
    IF i > Len(RequiredValues) THEN "None"
    ELSE IF Lookup(d, RequiredValues[i]) # "None"
         THEN Lookup(d, RequiredValues[i])
    ELSE ExtractValues(d, i + 1)

\* Lines 162-176: the try block turns KeyError, and nothing else, into
\* HangupsError.
ExtractRaises(raised) ==
    IF raised = "KeyError" THEN "HangupsError" ELSE raised

\* Lines 179-186: a schema applied to a value looked up outside any try.
ParseRequired(d, ns) ==
    IF Lookup(d, ns) # "None" THEN Lookup(d, ns)
    ELSE SchemaParse(d.segments[ns])

\* The contacts a decodable ds:21 holds.
ContactEntities == <<"entity1", "entity2">>

\* Mutant: a failure to decode the entities is not caught.
InitialEntitiesUncaught(d) ==
    IF SchemaParse(d.segments["ds:21"]) = "ValueError"
    THEN [raised |-> "ValueError", entities |-> <<>>]
    ELSE [raised |-> "None", entities |-> ContactEntities]

\* Lines 194-208: the entities, or none of them when the schema fails.
InitialEntities(d) ==
    IF SchemaParse(d.segments["ds:21"]) = "ValueError"
    THEN [raised |-> "None", entities |-> <<>>]
    ELSE [raised |-> "None", entities |-> ContactEntities]

Raised(exception) == [raised |-> exception, entities |-> <<>>]

\* Client._initialize_chat: what it raises, or the entities of the
\* InitialData it returns.
InitializeChat(d) ==
    IF d.http = "NetworkError" THEN Raised("HangupsError")
    ELSE IF ExtractValues(d, 1) # "None"
         THEN Raised(ExtractRaises(ExtractValues(d, 1)))
    ELSE IF ParseRequired(d, "ds:20") # "None"
         THEN Raised(ParseRequired(d, "ds:20"))
    ELSE IF ParseRequired(d, "ds:19") # "None"
         THEN Raised(ParseRequired(d, "ds:19"))
    ELSE InitialEntities(d)

\* The session fields in the order in which lines 163-170 assign them,
\* each with the namespace and the position it is read from.
SessionValues ==
    <<[field |-> "_api_key", ns |-> "ds:7", at |-> "[0][2]"],
      [field |-> "_header_date", ns |-> "ds:2", at |-> "[0][4]"],
      [field |-> "_header_version", ns |-> "ds:2", at |-> "[0][6]"],
      [field |-> "_header_id", ns |-> "ds:4", at |-> "[0][7]"],
      [field |-> "_channel_path", ns |-> "ds:4", at |-> "[0][1]"],
      [field |-> "_clid", ns |-> "ds:4", at |-> "[0][7]"],
      [field |-> "_channel_ec_param", ns |-> "ds:4", at |-> "[0][4]"],
      [field |-> "_channel_prop_param", ns |-> "ds:4", at |-> "[0][5]"]>>

SessionFields == {SessionValues[i].field : i \in 1..Len(SessionValues)}

\* Client.__init__, lines 73-85: every field is None, here <<>>.
NoSession == [f \in SessionFields |-> <<>>]

\* Lines 163-170: each field is assigned as soon as its value is read; the
\* first lookup that raises ends the block.
RECURSIVE AssignValues(_, _, _)
AssignValues(sess, d, i) ==
    IF i > Len(SessionValues) THEN sess
    ELSE IF Lookup(d, SessionValues[i].ns) # "None" THEN sess
    ELSE AssignValues(
             [sess EXCEPT ![SessionValues[i].field] =
                            <<SessionValues[i].ns, SessionValues[i].at>>],
             d, i + 1)

\* Client._initialize_chat: the session fields it leaves behind.
InitializeChatFields(sess, d) ==
    IF d.http = "NetworkError" THEN sess ELSE AssignValues(sess, d, 1)

(***************************************************************************)
(* Client.connect and the connection's life: the channel connects, the     *)
(* client announces itself, on_connect fires; the channel may disconnect   *)
(* and reconnect.                                                          *)
(***************************************************************************)
\* The channel reconnects at most this often (guard).
MaxReconnects == 2

Occurrences(log, entry) == Cardinality({i \in 1..Len(log) : log[i] = entry})

\* How a coroutine started with asyncio.async ends.
Results == {"returned", "raised"}

InitConnect ==
    /\ doc \in Docs
    /\ conn_pc = "start"
    /\ conn_raised = "None"
    /\ initial_data = <<>>
    /\ channel = "None"
    /\ announce = "idle"
    /\ life_log = <<>>
    /\ leave = <<>>
    /\ session = NoSession

\* Client.connect, lines 101-113: _initialize_chat, then the channel and
\* its observers, then listen().
Connect ==
    /\ conn_pc = "start"
    /\ LET r == InitializeChat(doc)
       IN  IF r.raised # "None"
           THEN /\ conn_pc' = "failed"
                /\ conn_raised' = r.raised
                /\ UNCHANGED <<initial_data, channel>>
           ELSE /\ conn_pc' = "listening"
                /\ initial_data' = <<[entities |-> r.entities]>>
                /\ channel' = "created"
                /\ UNCHANGED conn_raised
    /\ session' = InitializeChatFields(session, doc)
    /\ UNCHANGED <<doc, announce, life_log>>
    /\ UNCHANGED <<store_vars, req_vars, call_vars, leave>>

\* The channel fires on_connect: the observer of line 107 fires
\* __on_pre_connect, and _on_pre_connect starts setpresence(True).
ChannelConnects ==
    /\ channel = "created"
    /\ channel' = "connected"
    /\ announce' = "setpresence"
    /\ life_log' = life_log \o <<"channel.on_connect", "setpresence">>
    /\ UNCHANGED <<doc, conn_pc, conn_raised, initial_data>>
    /\ UNCHANGED <<store_vars, req_vars, call_vars, leave, session>>

\* Mutant: the done-callback looks at the result, and an exception of
\* setpresence ends the chain.
SetPresenceDoneChecked(result) ==
    /\ announce = "setpresence"
    /\ announce' = IF result = "returned" THEN "setactiveclient" ELSE "idle"
    /\ life_log' = life_log \o
            (IF result = "returned"
             THEN <<"setpresence.returned", "setactiveclient">>
             ELSE <<"setpresence.raised">>)
    /\ UNCHANGED <<doc, conn_pc, conn_raised, initial_data, channel>>
    /\ UNCHANGED <<store_vars, req_vars, call_vars, leave, session>>

\* setpresence(True) is done, whether it returned or raised: its
\* done-callback (line 126) starts setactiveclient(True).
SetPresenceDone(result) ==
    /\ announce = "setpresence"
    /\ announce' = "setactiveclient"
    /\ life_log' = life_log \o
            <<IF result = "returned" THEN "setpresence.returned"
              ELSE "setpresence.raised", "setactiveclient">>
    /\ UNCHANGED <<doc, conn_pc, conn_raised, initial_data, channel>>
    /\ UNCHANGED <<store_vars, req_vars, call_vars, leave, session>>

\* setactiveclient(True) is done: its done-callback (line 127) fires
\* on_connect with the initial data.
SetActiveClientDone(result) ==
    /\ announce = "setactiveclient"
    /\ announce' = "idle"
    /\ life_log' = life_log \o
            <<IF result = "returned" THEN "setactiveclient.returned"
              ELSE "setactiveclient.raised", "on_connect">>
    /\ UNCHANGED <<doc, conn_pc, conn_raised, initial_data, channel>>
    /\ UNCHANGED <<store_vars, req_vars, call_vars, leave, session>>

\* The channel fires on_disconnect: line 111 passes it on.
ChannelDisconnects ==
    /\ channel = "connected"
    /\ channel' = "disconnected"
    /\ life_log' = life_log \o <<"channel.on_disconnect", "on_disconnect">>
    /\ UNCHANGED <<doc, conn_pc, conn_raised, initial_data, announce>>
    /\ UNCHANGED <<store_vars, req_vars, call_vars, leave, session>>

\* The channel fires on_reconnect: its observer is Client.on_reconnect.fire
\* itself (line 110), whose observers (the store's sync_f among them,
\* conversation.py:122) run at once.
ChannelReconnects ==
    /\ channel = "disconnected"
    /\ Occurrences(life_log, "on_reconnect") < MaxReconnects
    /\ channel' = "connected"
    /\ life_log' = life_log \o <<"channel.on_reconnect", "on_reconnect">>
    /\ UNCHANGED <<doc, conn_pc, conn_raised, initial_data, announce>>
    /\ UNCHANGED <<store_vars, req_vars, call_vars, leave, session>>

Announce ==
    \E result \in Results :
        SetPresenceDone(result) \/ SetActiveClientDone(result)

\* Client.disconnect is called at most this often (guard).
MaxDisconnects == 2

\* Channel.is_connected
IsConnected(ch) == ch = "connected"

\* Line 93: there is a channel and it is connected.
HasConnectedChannel == channel # "None" /\ IsConnected(channel)

\* loop.stop() has been called (line 96): the loop runs no callback more.
Stopped == \E k \in 1..Len(leave) : Occurrences(leave[k].log, "stop") > 0

\* Mutant: fire and forget, both calls are started by disconnect itself.
DisconnectAtOnce ==
    /\ Len(leave) < MaxDisconnects
    /\ leave' = Append(leave,
                    [channel |-> channel,
                     log |-> IF HasConnectedChannel
                             THEN <<"setpresence", "setactiveclient">>
                             ELSE <<>>])
    /\ UNCHANGED <<doc, conn_pc, conn_raised, initial_data, channel,
                   announce, life_log, session>>
    /\ UNCHANGED <<store_vars, req_vars, call_vars>>

\* Client.disconnect, lines 93-94: with a connected channel it starts
\* setpresence(False), otherwise it does nothing.
Disconnect ==
    /\ Len(leave) < MaxDisconnects
    /\ leave' = Append(leave,
                    [channel |-> channel,
                     log |-> IF HasConnectedChannel
                             THEN <<"setpresence">>
                             ELSE <<>>])
    /\ UNCHANGED <<doc, conn_pc, conn_raised, initial_data, channel,
                   announce, life_log, session>>
    /\ UNCHANGED <<store_vars, req_vars, call_vars>>

\* setpresence(False) of the k-th call is done, whether it returned or
\* raised: its done-callback (line 95) starts setactiveclient(False).
DisconnectPresenceDone(k, result) ==
    /\ leave[k].log # <<>>
    /\ leave[k].log[Len(leave[k].log)] = "setpresence"
    /\ leave' = [leave EXCEPT ![k].log = @ \o
            <<IF result = "returned" THEN "setpresence.returned"
              ELSE "setpresence.raised", "setactiveclient">>]
    /\ UNCHANGED <<doc, conn_pc, conn_raised, initial_data, channel,
                   announce, life_log, session>>
    /\ UNCHANGED <<store_vars, req_vars, call_vars>>

\* setactiveclient(False) of the k-th call is done: its done-callback
\* (line 96) stops the event loop.
DisconnectActiveClientDone(k, result) ==
    /\ leave[k].log # <<>>
    /\ leave[k].log[Len(leave[k].log)] = "setactiveclient"
    /\ leave' = [leave EXCEPT ![k].log = @ \o
            <<IF result = "returned" THEN "setactiveclient.returned"
              ELSE "setactiveclient.raised", "stop">>]
    /\ UNCHANGED <<doc, conn_pc, conn_raised, initial_data, channel,
                   announce, life_log, session>>
    /\ UNCHANGED <<store_vars, req_vars, call_vars>>

DisconnectChain ==
    \E k \in 1..Len(leave) : \E result \in Results :
        DisconnectPresenceDone(k, result)
            \/ DisconnectActiveClientDone(k, result)

Channel == ChannelConnects \/ ChannelDisconnects \/ ChannelReconnects

\* No connection in the making: the client of the other specifications.
NoDoc == [http |-> "NetworkError",
          segments |-> [ns \in Segments |-> "absent"]]

IdleConnect ==
    /\ doc = NoDoc
    /\ conn_pc = "start"
    /\ conn_raised = "None"
    /\ initial_data = <<>>
    /\ channel = "None"
    /\ announce = "idle"
    /\ life_log = <<>>
    /\ leave = <<>>
    /\ session = NoSession

(***************************************************************************)
(* The raw API methods that look at the status inside the response body.   *)
(***************************************************************************)
Methods == {"syncallnewevents", "sendchatmessage", "setpresence",
            "setactiveclient"}

\* What a response body holds: nothing its decoder accepts, or a response
\* header with this status.
Bodies == {"unparsable", "1", "OK", "ERROR"}

\* setpresence makes two requests (lines 392 and 404), the others one.
RequestsOf(m) == IF m = "setpresence" THEN 2 ELSE 1

\* The status that stands for success: 1 in the protojson that
\* syncallnewevents asks for (line 308), 'OK' in the json of the others.
OkStatus(m) == IF m = "syncallnewevents" THEN "1" ELSE "OK"

\* Decoding the body: syncallnewevents turns the decoder's ValueError into
\* NetworkError (lines 299-305); the others call json.loads bare.
BodyRaises(m, b) ==
    IF b # "unparsable" THEN "None"
    ELSE IF m = "syncallnewevents" THEN "NetworkError"
    ELSE "ValueError"

\* Mutant: either sentinel is taken for success, whatever the encoding.
UnexpectedAppStatusEither(m, b) == b \notin {"1", "OK"}

\* Lines 308, 339, 401, 410, 447: the status is not the method's sentinel.
UnexpectedAppStatus(m, b) == b # OkStatus(m)

InitCall ==
    /\ method \in Methods
    /\ request_no = 1
    /\ body = "none"
    /\ call_outcome = "none"

\* No raw API method of this model is running.
IdleCall ==
    /\ method = "none"
    /\ request_no = 0
    /\ body = "none"
    /\ call_outcome = "none"

\* _request raised (KeyError or NetworkError): the method lets it through.
CallRequestRaises ==
    /\ method \in Methods
    /\ call_outcome = "none"
    /\ req_pc = "done"
    /\ outcome # "FetchResponse"
    /\ call_outcome' = outcome
    /\ UNCHANGED <<method, request_no, body>>
    /\ UNCHANGED <<store_vars, req_vars, conn_vars>>

\* _request returned a response with body b: the method decodes it and
\* checks its status, then returns, raises, or makes its next request.
CallResponse(b) ==
    /\ method \in Methods
    /\ call_outcome = "none"
    /\ req_pc = "done"
    /\ outcome = "FetchResponse"
    /\ body' = b
    /\ IF BodyRaises(method, b) # "None"
       THEN /\ call_outcome' = BodyRaises(method, b)
            /\ UNCHANGED <<request_no, req_vars>>
       ELSE IF UnexpectedAppStatus(method, b)
       THEN /\ call_outcome' = "NetworkError"
            /\ UNCHANGED <<request_no, req_vars>>
       ELSE IF request_no < RequestsOf(method)
       THEN /\ request_no' = request_no + 1
            /\ req_pc' = "start"
            /\ attempt_log' = <<>>
            /\ error_msg' = "None"
            /\ res_status' = 0
            /\ outcome' = "none"
            /\ raised_msg' = "None"
            /\ UNCHANGED <<call_outcome, cookies>>
       ELSE /\ call_outcome' = "returned"
            /\ UNCHANGED <<request_no, req_vars>>
    /\ UNCHANGED method
    /\ UNCHANGED <<store_vars, conn_vars>>

Call == CallRequestRaises \/ \E b \in Bodies : CallResponse(b)

(***************************************************************************)
(* SpecUpdates: the store remembering in last_res what its last handler    *)
(* was given, a push update or the reply to syncallnewevents.              *)
(***************************************************************************)
Delivered(state_update) == [valid |-> FALSE, res |-> <<state_update>>]

\* What comes back to syncallnewevents: _request raises NetworkError, or
\* returns a response whose body may hold conversation states.
SyncReplies ==
    {[request |-> "NetworkError", body |-> "none", conversation_state |-> <<>>]}
    \cup
    {reply \in [request : {"FetchResponse"},
                body : {"unparsable", "1", "OK", "ERROR"},
                conversation_state : Responses] :
        reply.body = "unparsable" => reply.conversation_state = <<>>}

\* The reply without its conversation states.
Replied(reply) ==
    [valid |-> FALSE,
     res |-> <<[request |-> reply.request, body |-> reply.body]>>]

\* Client.syncallnewevents, lines 292-311, on the given reply: the
\* exception it raises, or the response it returns.
SyncAllNewEvents(reply) ==
    IF reply.request # "FetchResponse"
    THEN [raised |-> reply.request, res |-> <<>>]
    ELSE IF BodyRaises("syncallnewevents", reply.body) # "None"
    THEN [raised |-> BodyRaises("syncallnewevents", reply.body),
          res |-> <<>>]
    ELSE IF UnexpectedAppStatus("syncallnewevents", reply.body)
    THEN [raised |-> "NetworkError", res |-> <<>>]
    ELSE [raised |-> "None", res |-> reply.conversation_state]

\* Mutant: the except clause forgets to leave; the states that came with
\* the reply are processed all the same.
SyncEndFallsThrough(st, reply) == SyncApply(st, reply.conversation_state, 1)

\* ConversationList._sync, lines 202-221: NetworkError is logged and the
\* store left alone, a response is processed.
SyncEnd(st, reply) ==
    IF SyncAllNewEvents(reply).raised = "NetworkError" THEN st
    ELSE SyncApply(st, SyncAllNewEvents(reply).res, 1)

\* The call of syncallnewevents ends, and _sync with it.
SyncCompletes(f, reply) ==
    LET st == SyncEnd(Store, reply)
    IN  /\ sync_pc[f].state = "awaiting"
        /\ StoreSize(st.conv_dict) <= MaxEvents
        /\ conv_dict' = st.conv_dict
        /\ sync_timestamp' = st.sync_timestamp
        /\ fired' = st.fired
        /\ sync_pc' = [sync_pc EXCEPT ![f] = Idle]
        /\ last_res' = Replied(reply)
        /\ UNCHANGED <<flow, pushed, last_push>>
        /\ UNCHANGED <<req_vars, client_vars>>

PushLogged ==
    \E state_update \in StateUpdates :
        /\ PushStateUpdate(state_update)
        /\ last_res' = Delivered(state_update)
        /\ UNCHANGED last_push
        /\ UNCHANGED <<req_vars, client_vars>>

\* The resyncs of SpecUpdates are those that on_reconnect starts.
SyncLogged ==
    \/ SyncCall("on_reconnect")
    \/ \E reply \in SyncReplies : SyncCompletes("on_reconnect", reply)

\* The store of Spec, SpecOrdered and SpecTrace belongs to a client that
\* holds every required cookie and has no request of this model running.
Init ==
    /\ InitStore
    /\ InitRequest
    /\ cookies = RequiredCookies
    /\ IdleCall
    /\ IdleConnect

\* SpecRequest: any set of cookies, and an empty store.
InitCookies ==
    /\ cookies \in SUBSET RequiredCookies
    /\ InitRequest
    /\ conv_dict = <<>>
    /\ sync_timestamp = 0
    /\ fired = <<>>
    /\ sync_pc = [f \in SyncFlows |-> Idle]
    /\ flow = [f \in SyncFlows |-> Out]
    /\ pushed = {}
    /\ last_push = 0
    /\ last_res = NoResponse
    /\ IdleCall
    /\ IdleConnect

\* The store before the client has connected: nothing in it.
NoStore ==
    /\ conv_dict = <<>>
    /\ sync_timestamp = 0
    /\ fired = <<>>
    /\ sync_pc = [f \in SyncFlows |-> Idle]
    /\ flow = [f \in SyncFlows |-> Out]
    /\ pushed = {}
    /\ last_push = 0
    /\ last_res = NoResponse

\* SpecCall: one call of a raw API method, by a client with or without
\* its cookies.
InitCalls ==
    /\ NoStore
    /\ InitRequest
    /\ cookies \in {RequiredCookies, RequiredCookies \ {"SID"}}
    /\ InitCall
    /\ IdleConnect

\* SpecConnect: Client.connect on any bootstrap page.
InitConnects ==
    /\ NoStore
    /\ InitRequest
    /\ cookies = RequiredCookies
    /\ IdleCall
    /\ InitConnect

Next == Push \/ Sync \/ Send

NextOrdered == PushOrdered \/ Sync \/ Send

NextTrace == PushTraced \/ SyncTraced \/ Send

NextRequest == RequestStart \/ FetchRequest \/ FetchRead

Spec == Init /\ [][Next]_vars

SpecOrdered == Init /\ [][NextOrdered]_vars

NextFlows == FlowPush \/ FlowSync \/ FlowStep

SpecFlows == Init /\ [][NextFlows]_vars

SpecTrace == Init /\ [][NextTrace]_vars

SpecRequest == InitCookies /\ [][NextRequest]_vars

NextUpdates == PushLogged \/ SyncLogged \/ Send

SpecUpdates == Init /\ [][NextUpdates]_vars

NextCall == RequestStart \/ FetchRequest \/ FetchRead \/ Call

SpecCall == InitCalls /\ [][NextCall]_vars

NextConnect == Connect \/ Channel \/ Announce

SpecConnect == InitConnects /\ [][NextConnect]_vars

\* SpecDisconnect: the connection with a user of the client who calls
\* disconnect at any moment; nothing runs once the loop is stopped.
NextDisconnect ==
    \/ ~Stopped /\ Connect
    \/ ~Stopped /\ Channel
    \/ ~Stopped /\ Announce
    \/ ~Stopped /\ Disconnect
    \/ ~Stopped /\ DisconnectChain

SpecDisconnect == InitConnects /\ [][NextDisconnect]_vars

\* A call of setpresence or setactiveclient ends: every request of theirs
\* returns or raises within CONNECT_TIMEOUT and REQUEST_TIMEOUT, at most
\* MAX_RETRIES times (http_utils.fetch), and the event loop then runs the
\* done-callback of the task.
SpecConnectFair == SpecConnect /\ WF_vars(Announce)

(***************************************************************************)
(* Properties.                                                             *)
(***************************************************************************)
LogOf(cd, c) == IF c \in DOMAIN cd THEN cd[c].events ELSE <<>>

\* How often the log holds an entry for the client event.
Count(log, event_) ==
    Cardinality({i \in 1..Len(log) : log[i].event.event_id = event_.event_id})

IsPrefix(s, t) == Len(s) <= Len(t) /\ \A i \in 1..Len(s) : s[i] = t[i]

Range(s) == {s[i] : i \in 1..Len(s)}

\* What _sync makes of the response res in the current state.
Synced(res) == SyncApply(Store, res, 1)

\* C1 (SpecTrace): processing the same resync response a second time,
\* with no push in between, appends no event to any log; this includes
\* responses that hold a conversation the store did not know before the
\* first processing.
C1_ResyncIdempotent ==
    [][(last_res.valid /\ last_res' = last_res) =>
            \A c \in DOMAIN conv_dict' :
                conv_dict'[c].events = LogOf(conv_dict, c)]_vars

\* The case of C2: the push path has appended E1 to the log of the known
\* conversation c, which holds it once, and the response brings E1 and an
\* older E0 that the log does not hold.
MergeCase(res, k, E0, E1) ==
    LET c == res[k].conversation.conversation_id
    IN  /\ c \in DOMAIN conv_dict
        /\ E1 \in pushed
        /\ Count(conv_dict[c].events, E1) = 1
        /\ Count(conv_dict[c].events, E0) = 0
        /\ {E0, E1} \subseteq Range(res[k].event)
        /\ E0.timestamp < E1.timestamp

\* C2, as claimed: after the resync the log holds E0 once and E1 once.
C2_MergeAppendsOlder ==
    \A res \in Responses : \A k \in 1..Len(res) :
        \A E0, E1 \in ClientEvents :
            MergeCase(res, k, E0, E1) =>
                LET log == Synced(res).conv_dict[
                                res[k].conversation.conversation_id].events
                IN  Count(log, E0) = 1 /\ Count(log, E1) = 1

\* C2, amended: when the watermark is still at or above t1, after the
\* resync the log holds E1 once and E0 not at all.
C2_MergeDropsOlder ==
    \A res \in Responses : \A k \in 1..Len(res) :
        \A E0, E1 \in ClientEvents :
            (MergeCase(res, k, E0, E1)
                /\ sync_timestamp >= FromTimestamp(E1.timestamp)) =>
                LET log == Synced(res).conv_dict[
                                res[k].conversation.conversation_id].events
                IN  Count(log, E0) = 0 /\ Count(log, E1) = 1

\* A resync is in flight whose response can bring the case of C2, and the
\* resync leaves the log with E1 once and without E0.
C2_Witness ==
    \E f \in SyncFlows : \E res \in Responses : \E k \in 1..Len(res) :
        \E E0, E1 \in ClientEvents :
            /\ sync_pc[f].state = "awaiting"
            /\ MergeCase(res, k, E0, E1)
            /\ sync_timestamp >= FromTimestamp(E1.timestamp)
            /\ Count(Synced(res).conv_dict[E1.conversation_id].events, E0) = 0

\* C3 (SpecOrdered): whatever response a resync processes, it appends no
\* further entry and fires no notification for an event that the push path
\* has appended.
C3_NoRefire ==
    \A res \in Responses : \A e \in pushed :
        LET st == Synced(res)
        IN  /\ Count(LogOf(st.conv_dict, e.conversation_id), e)
                = Count(LogOf(conv_dict, e.conversation_id), e)
            /\ \A i \in 1..Len(st.fired) :
                    st.fired[i].arg.event.event_id # e.event_id

\* A push arrived while a resync was in flight (the watermark has moved
\* since the call), and the response may bring the pushed event.
C3_Witness ==
    \E f \in SyncFlows : \E e \in pushed :
        /\ sync_pc[f].state = "awaiting"
        /\ sync_pc[f].timestamp < sync_timestamp
        /\ FromTimestamp(e.timestamp) = sync_timestamp
        /\ \E res \in Responses : \E k \in 1..Len(res) :
                e \in Range(res[k].event)

\* C4: no log holds two entries for the same source event id.
C4_NoDuplicates ==
    \A c \in DOMAIN conv_dict :
        \A i, j \in 1..Len(conv_dict[c].events) :
            i < j => conv_dict[c].events[i].event.event_id
                        # conv_dict[c].events[j].event.event_id

\* C5: the watermark never decreases.
C5_WatermarkMonotone == [][sync_timestamp' >= sync_timestamp]_vars

\* The entries a step has appended to the log of c.
Appended(c) ==
    {conv_dict'[c].events[i] :
        i \in (Len(LogOf(conv_dict, c)) + 1)..Len(conv_dict'[c].events)}

\* C6: every event appended to a log, by the seed, a push or a resync, has
\* a timestamp at or below the watermark when its handler completes.
C6_WatermarkCoversAppended ==
    /\ \A c \in DOMAIN conv_dict : \A i \in 1..Len(conv_dict[c].events) :
            FromTimestamp(conv_dict[c].events[i].event.timestamp)
                <= sync_timestamp
    /\ [][\A c \in DOMAIN conv_dict' : \A conv_event \in Appended(c) :
            FromTimestamp(conv_event.event.timestamp) <= sync_timestamp']_vars

\* C7: every step keeps every conversation, and its log before the step is
\* a prefix of its log after the step.
C7_AppendOnly ==
    [][\A c \in DOMAIN conv_dict :
            /\ c \in DOMAIN conv_dict'
            /\ IsPrefix(conv_dict[c].events, conv_dict'[c].events)]_vars

\* A conversation whose snapshot has been replaced holds an entry the push
\* path appended after an older entry, and a resync is in flight whose
\* response may carry fewer events than that log.
C7_Witness ==
    \E c \in DOMAIN conv_dict : \E f \in SyncFlows :
        /\ conv_dict[c].conversation.name = UpdateName
        /\ Len(conv_dict[c].events) = 2
        /\ conv_dict[c].events[1].event \notin pushed
        /\ conv_dict[c].events[2].event \in pushed
        /\ sync_pc[f].state = "awaiting"

\* The attempts fetch has begun: those that ended and the one in flight.
Attempts ==
    Len(attempt_log) + IF req_pc \in {"request", "read"} THEN 1 ELSE 0

LastAttempt == attempt_log[Len(attempt_log)]

\* C8 (SpecRequest): fetch makes at most MAX_RETRIES attempts; every
\* attempt before the last one ended in a timeout or a connection failure,
\* and after such a failure fetch gives up only when it was attempt number
\* MAX_RETRIES, raising NetworkError with that failure's message; once an
\* attempt completes there is no further attempt, and with status 200
\* fetch returns the response and raises nothing.
C8_BoundedRetry ==
    /\ Attempts <= MAX_RETRIES
    /\ \A i \in 1..(Len(attempt_log) - 1) : attempt_log[i] \in Failures
    /\ (attempt_log # <<>> /\ LastAttempt \in Failures) =>
            IF Len(attempt_log) = MAX_RETRIES
            THEN /\ req_pc = "done"
                 /\ outcome = "NetworkError"
                 /\ raised_msg = ErrorMsg(LastAttempt)
            ELSE req_pc \in {"request", "read"} /\ outcome = "none"
    /\ (attempt_log # <<>> /\ LastAttempt = "completed") =>
            /\ req_pc = "done"
            /\ res_status = 200 =>
                    outcome = "FetchResponse" /\ raised_msg = "None"

\* The first attempt timed out, the second completed with status 200, and
\* fetch has returned.
C8_Witness ==
    /\ attempt_log = <<"TimeoutError", "completed">>
    /\ res_status = 200
    /\ outcome = "FetchResponse"

C10_MissingCookie ==
    (RequiredCookies \ cookies # {}) =>
        /\ Attempts = 0
        /\ req_pc \in {"start", "done"}
        /\ req_pc = "done" => outcome = "KeyError"

\* _request has ended for a client that holds SAPISID but not SID.
C10_Witness ==
    /\ "SAPISID" \in cookies
    /\ "SID" \notin cookies
    /\ req_pc = "done"
    /\ outcome = "KeyError"

\* The page came, and a namespace the client needs is not in it or lacks a
\* position the client indexes.
MissingRequired(d) ==
    /\ d.http = "FetchResponse"
    /\ \E ns \in Namespaces : d.segments[ns] \in {"absent", "short"}

\* C11 (SpecConnect): on a bootstrap page that lacks a required namespace
\* or a required position inside one, connect fails with HangupsError,
\* creates no channel and hands out no initial data, and on_connect never
\* fires.
C11_MissingRequiredFails ==
    MissingRequired(doc) =>
        /\ conn_pc # "start" =>
                conn_pc = "failed" /\ conn_raised = "HangupsError"
        /\ channel = "None"
        /\ initial_data = <<>>
        /\ Occurrences(life_log, "on_connect") = 0

\* Everything the client needs outside the entity namespace ds:21 is there.
OtherRequiredOk(d) ==
    /\ d.http = "FetchResponse"
    /\ \A ns \in Namespaces \ {"ds:21"} : d.segments[ns] = "ok"

Succeeded(entities) ==
    /\ conn_pc = "listening"
    /\ conn_raised = "None"
    /\ initial_data = <<[entities |-> entities]>>

\* C12, as claimed (SpecConnect): on a page that holds the required data
\* and either lacks the entity namespace or holds one that the schema
\* rejects, _initialize_chat succeeds with an empty list of entities.
C12_EntitiesOptional ==
    (/\ OtherRequiredOk(doc)
     /\ doc.segments["ds:21"] \in {"absent", "undecodable"}
     /\ conn_pc # "start") => Succeeded(<<>>)

\* C12, amended (SpecConnect): when the schema rejects the entity
\* namespace, _initialize_chat succeeds with an empty list of entities;
\* when the namespace is not there, _initialize_chat fails with
\* HangupsError, because the sync timestamp is read from the same namespace.
C12_EntitiesDegrade ==
    /\ (/\ OtherRequiredOk(doc)
        /\ doc.segments["ds:21"] = "undecodable"
        /\ conn_pc # "start") => Succeeded(<<>>)
    /\ (/\ OtherRequiredOk(doc)
        /\ doc.segments["ds:21"] = "absent"
        /\ conn_pc # "start") =>
            /\ conn_pc = "failed"
            /\ conn_raised = "HangupsError"
            /\ initial_data = <<>>

\* The schema rejected the entities, and the client has connected and
\* fired on_connect all the same.
C12_Witness ==
    /\ OtherRequiredOk(doc)
    /\ doc.segments["ds:21"] = "undecodable"
    /\ Succeeded(<<>>)
    /\ Occurrences(life_log, "on_connect") = 1

\* Between the entries c and i of the log, setpresence was started and
\* done, and after that setactiveclient was started and done.
AnnouncedBetween(c, i) ==
    \E p1, p2, a1, a2 \in (c + 1)..(i - 1) :
        /\ p1 < p2 /\ p2 < a1 /\ a1 < a2
        /\ life_log[p1] = "setpresence"
        /\ life_log[p2] \in {"setpresence.returned", "setpresence.raised"}
        /\ life_log[a1] = "setactiveclient"
        /\ life_log[a2] \in {"setactiveclient.returned",
                             "setactiveclient.raised"}

\* C14 (SpecConnect): whenever on_connect or on_reconnect fires (and with
\* it the resync), the channel's connect, or its latest reconnect, lies
\* before it, and in between the presence was announced and then the
\* active client, each call done before the next step began.
C14_AnnouncedBeforeFire ==
    \A i \in 1..Len(life_log) :
        /\ life_log[i] = "on_connect" =>
                \E c \in 1..(i - 1) :
                    /\ life_log[c] = "channel.on_connect"
                    /\ AnnouncedBetween(c, i)
        /\ life_log[i] = "on_reconnect" =>
                \E c \in 1..(i - 1) :
                    /\ life_log[c] = "channel.on_reconnect"
                    /\ \A j \in (c + 1)..(i - 1) :
                            life_log[j] # "channel.on_reconnect"
                    /\ AnnouncedBetween(c, i)

\* C18 (SpecCall): when a response came with HTTP status 200 and its body
\* holds a status other than the method's OK sentinel, the method, any of
\* the four, ends at once and raises NetworkError; for setpresence this
\* holds of both its requests.
C18_AppStatusChecked ==
    (body \notin {"none", "unparsable", OkStatus(method)}) =>
        /\ outcome = "FetchResponse"
        /\ res_status = 200
        /\ call_outcome = "NetworkError"

\* The first request of setpresence was answered OK, the second with an
\* error status in a 200 response.
C18_Witness ==
    /\ method = "setpresence"
    /\ request_no = 2
    /\ res_status = 200
    /\ body = "ERROR"
    /\ call_outcome = "NetworkError"

\* The reply is one of the failures of the transport call: _request raised
\* NetworkError (retries used up, or a status other than 200), the body
\* does not decode, or its status is not the OK sentinel.
FailedReply(summary) ==
    \/ summary.request = "NetworkError"
    \/ summary.body = "unparsable"
    \/ summary.body # "1"

\* C13 (SpecUpdates): a resync whose transport call fails ends (the flow
\* is idle again, nothing was raised to its caller) with the same
\* conversations, the same snapshots and logs and the same watermark as
\* before, and without a notification.
C13_FailedResyncKeepsStore ==
    [][\A f \in SyncFlows :
        (/\ sync_pc[f].state = "awaiting"
         /\ sync_pc'[f].state = "idle"
         /\ FailedReply(last_res'.res[1])) =>
            /\ conv_dict' = conv_dict
            /\ sync_timestamp' = sync_timestamp
            /\ fired' = <<>>]_vars

\* A resync of a store that holds an event has ended on a 200 response
\* whose body carries an error status.
C13_Witness ==
    /\ last_res = Replied([request |-> "FetchResponse", body |-> "ERROR"])
    /\ \A f \in SyncFlows : sync_pc[f].state = "idle"
    /\ \E c \in DOMAIN conv_dict : Len(conv_dict[c].events) > 0
    /\ fired = <<>>

\* The push updates with one field populated.
EventUpdate(event_) ==
    [client_conversation |-> <<>>, typing_notification |-> <<>>,
     event_notification |-> <<[event |-> event_]>>]

TypingUpdate(conv_id) ==
    [client_conversation |-> <<>>,
     typing_notification |-> <<[conversation_id |-> conv_id]>>,
     event_notification |-> <<>>]

SnapshotUpdate(client_conversation) ==
    [client_conversation |-> <<client_conversation>>,
     typing_notification |-> <<>>, event_notification |-> <<>>]

\* What the handler of push updates makes of the update in this state.
Pushed(state_update) == OnStateUpdate(Store, state_update)

\* The log entry the claim expects for a client event: the first populated
\* payload in the order chat message, rename, membership change.
ExpectedEntry(event_) ==
    [type |-> CASE "chat_message" \in event_.payload -> "ChatMessageEvent"
                [] "chat_message" \notin event_.payload
                    /\ "conversation_rename" \in event_.payload
                        -> "RenameEvent"
                [] event_.payload = {"membership_change"}
                        -> "MembershipChangeEvent"
                [] event_.payload = {} -> "ConversationEvent",
     event |-> event_]

\* Every conversation but c is what it was.
OthersKept(cd, c) ==
    \A d \in DOMAIN conv_dict : d # c => d \in DOMAIN cd /\ cd[d] = conv_dict[d]

\* C15 (SpecUpdates): a pushed event notification with timestamp T for a
\* known conversation appends exactly the classified event to the end of
\* that conversation's log, fires the store-wide on_event once and then the
\* conversation's on_event once with that entry, sets the watermark to T
\* and leaves every other conversation alone.
C15_PushedEventApplied ==
    \A event_ \in ClientEvents :
        event_.conversation_id \in DOMAIN conv_dict =>
            LET c == event_.conversation_id
                st == Pushed(EventUpdate(event_))
                entry == ExpectedEntry(event_)
            IN  /\ DOMAIN st.conv_dict = DOMAIN conv_dict
                /\ st.conv_dict[c].events = Append(conv_dict[c].events, entry)
                /\ st.conv_dict[c].conversation = conv_dict[c].conversation
                /\ st.fired =
                    <<[bus |-> "ConversationList.on_event", conv |-> c,
                       arg |-> entry],
                      [bus |-> "Conversation.on_event", conv |-> c,
                       arg |-> entry]>>
                /\ st.sync_timestamp = event_.timestamp
                /\ OthersKept(st.conv_dict, c)

\* The last update was an event older than the watermark of the time, for
\* a conversation with an entry in its log and another conversation
\* beside it: the entry is the log's last, both buses have fired, and the
\* watermark is the event's timestamp.
C15_Witness ==
    \E event_ \in ClientEvents :
        LET c == event_.conversation_id
        IN  /\ last_res = Delivered(EventUpdate(event_))
            /\ c \in DOMAIN conv_dict
            /\ Len(conv_dict[c].events) = 2
            /\ conv_dict[c].events[2].event = event_
            /\ conv_dict[c].events[1].event.timestamp > event_.timestamp
            /\ Len(fired) = 2
            /\ sync_timestamp = event_.timestamp
            /\ DOMAIN conv_dict # {c}

\* C16 (SpecUpdates): a pushed event notification for an unknown
\* conversation creates no conversation, changes no log and fires nothing,
\* and sets the watermark to the event's timestamp.
C16_UnknownEventDropped ==
    \A event_ \in ClientEvents :
        event_.conversation_id \notin DOMAIN conv_dict =>
            LET st == Pushed(EventUpdate(event_))
            IN  /\ st.conv_dict = conv_dict
                /\ st.fired = <<>>
                /\ st.sync_timestamp = event_.timestamp

\* The last update was an event for a conversation the store does not
\* know, older than an entry of the conversation it knows: the watermark is
\* the dropped event's timestamp.
C16_Witness ==
    \E event_ \in ClientEvents : \E c \in DOMAIN conv_dict :
        /\ last_res = Delivered(EventUpdate(event_))
        /\ event_.conversation_id \notin DOMAIN conv_dict
        /\ Len(conv_dict[c].events) > 0
        /\ conv_dict[c].events[1].event.timestamp > event_.timestamp
        /\ sync_timestamp = event_.timestamp
        /\ fired = <<>>

\* C17 (SpecUpdates): a typing notification leaves the watermark, the set
\* of conversations and every snapshot and log as they are; for a known
\* conversation it fires the store-wide on_typing and then the
\* conversation's on_typing, once each and with one message, for an
\* unknown conversation it fires nothing.
C17_TypingTouchesNothing ==
    \A conv_id \in ConvIds :
        LET st == Pushed(TypingUpdate(conv_id))
        IN  /\ st.conv_dict = conv_dict
            /\ st.sync_timestamp = sync_timestamp
            /\ IF conv_id \in DOMAIN conv_dict
               THEN /\ Len(st.fired) = 2
                    /\ st.fired[1].bus = "ConversationList.on_typing"
                    /\ st.fired[2].bus = "Conversation.on_typing"
                    /\ st.fired[1].conv = conv_id
                    /\ st.fired[2].conv = conv_id
                    /\ st.fired[1].arg = st.fired[2].arg
               ELSE st.fired = <<>>

\* The last update was a typing notification for a conversation with a
\* log, in a store that lacks the other conversation: both typing buses
\* have fired.
C17_Witness ==
    \E conv_id \in DOMAIN conv_dict :
        /\ last_res = Delivered(TypingUpdate(conv_id))
        /\ Len(conv_dict[conv_id].events) > 0
        /\ sync_timestamp > 0
        /\ Len(fired) = 2
        /\ fired[1].bus = "ConversationList.on_typing"
        /\ DOMAIN conv_dict # ConvIds

\* C20 (SpecUpdates): a pushed snapshot for a known conversation replaces
\* that conversation's snapshot and leaves its log, the watermark and the
\* other conversations alone and fires nothing; for an unknown
\* conversation it adds that one conversation, with an empty log.
C20_SnapshotReplaces ==
    \A c \in ConvIds :
        LET client_conversation == [conversation_id |-> c, name |-> UpdateName]
            st == Pushed(SnapshotUpdate(client_conversation))
        IN  /\ DOMAIN st.conv_dict = DOMAIN conv_dict \cup {c}
            /\ st.conv_dict[c].conversation = client_conversation
            /\ OthersKept(st.conv_dict, c)
            /\ IF c \in DOMAIN conv_dict
               THEN /\ st.conv_dict[c].events = conv_dict[c].events
                    /\ st.sync_timestamp = sync_timestamp
                    /\ st.fired = <<>>
               ELSE st.conv_dict[c].events = <<>>

\* The last update was a snapshot for a conversation that held the seed's
\* snapshot and a log: it holds the new snapshot and still has the log,
\* and the other conversation still has the seed's snapshot.
C20_Witness ==
    \E c, d \in DOMAIN conv_dict :
        /\ c # d
        /\ last_res = Delivered(SnapshotUpdate(
                        [conversation_id |-> c, name |-> UpdateName]))
        /\ conv_dict[c].conversation.name = UpdateName
        /\ Len(conv_dict[c].events) > 0
        /\ conv_dict[d].conversation.name = SeedName
        /\ pushed = {}
        /\ sync_timestamp > 0

\* The returned events that _sync has passed to _on_client_event: those
\* the store-wide on_event bus was fired with.
Routed(st) ==
    {st.fired[i].arg.event :
        i \in {j \in 1..Len(st.fired) :
                st.fired[j].bus = "ConversationList.on_event"}}

\* C19: whatever response a resync in flight receives, the events of a
\* known conversation that it routes through _on_client_event are exactly
\* the returned events newer than the watermark of the time of the call,
\* in whatever order the response lists them and whatever has moved the
\* watermark since.
C19_CallTimeWatermark ==
    \A f \in SyncFlows : \A res \in Responses :
        sync_pc[f].state = "awaiting" =>
            Routed(Synced(res)) =
                UNION {{event_ \in Range(res[k].event) :
                            FromTimestamp(event_.timestamp)
                                > sync_pc[f].timestamp} :
                        k \in {j \in 1..Len(res) :
                                res[j].conversation.conversation_id
                                    \in DOMAIN conv_dict}}

\* C21 (Spec): every log is sorted oldest to newest: the timestamps
\* of its entries do not decrease along the log.
C21_TimeOrdered ==
    \A c \in DOMAIN conv_dict :
        \A i, j \in 1..Len(conv_dict[c].events) :
            i < j => FromTimestamp(conv_dict[c].events[i].event.timestamp)
                        <= FromTimestamp(conv_dict[c].events[j].event.timestamp)

\* C22 (SpecUpdates): a conversation in the store is still in the store
\* after any push update and after any reply to a resync, and the handler
\* has constructed no new Conversation object for its id.
C22_AbsentToPresent ==
    \A c \in DOMAIN conv_dict :
        /\ \A state_update \in StateUpdates :
                LET st == OnStateUpdate(Store, state_update)
                IN  c \in DOMAIN st.conv_dict /\ c \notin Range(st.made)
        /\ \A reply \in SyncReplies :
                LET st == SyncEnd(Store, reply)
                IN  c \in DOMAIN st.conv_dict /\ c \notin Range(st.made)

\* A resync has just updated and extended a conversation that was in the
\* store before it: the first entry of its log was not appended by this
\* resync nor by a push, the second was appended by this resync.
C22_Witness ==
    \E c \in DOMAIN conv_dict :
        /\ last_res = Replied([request |-> "FetchResponse", body |-> "1"])
        /\ conv_dict[c].conversation.name = UpdateName
        /\ Len(conv_dict[c].events) = 2
        /\ conv_dict[c].events[1].event \notin pushed
        /\ Len(fired) = 2
        /\ fired[1].conv = c
        /\ fired[1].arg = conv_dict[c].events[2]

\* The announce call of that name has raised.
AnnounceFailed == "setpresence.raised" \in Range(life_log)
                    \/ "setactiveclient.raised" \in Range(life_log)

\* C23 (SpecConnectFair): a failed setpresence is followed at once by the
\* start of setactiveclient and a failed setactiveclient by on_connect
\* fired with the initial data; on_connect is never fired twice; and once
\* either call has failed, on_connect ends up fired exactly once.
C23_PresenceFailureNonFatal ==
    /\ [](/\ \A i \in 1..Len(life_log) :
                /\ life_log[i] = "setpresence.raised"
                    => i < Len(life_log) /\ life_log[i + 1] = "setactiveclient"
                /\ life_log[i] = "setactiveclient.raised"
                    => i < Len(life_log) /\ life_log[i + 1] = "on_connect"
          /\ Occurrences(life_log, "on_connect") <= 1
          /\ Occurrences(life_log, "on_connect") = 1 => initial_data # <<>>)
    /\ (AnnounceFailed ~> Occurrences(life_log, "on_connect") = 1)

\* Both calls have raised and on_connect has been fired.
C23_Witness ==
    /\ "setpresence.raised" \in Range(life_log)
    /\ "setactiveclient.raised" \in Range(life_log)
    /\ Occurrences(life_log, "on_connect") = 1

Before(log, earlier, i) == \E j \in 1..(i - 1) : log[j] \in earlier

\* C24 (SpecDisconnect): a call of disconnect that finds a connected
\* channel starts setpresence(False); setactiveclient(False) starts only
\* after setpresence(False) is done, and the loop is stopped only after
\* setactiveclient(False) is done; a call that finds no channel, or one
\* that is not connected, starts no request and never stops the loop.
C24_DisconnectSequenced ==
    \A k \in 1..Len(leave) :
        LET log == leave[k].log
        IN  IF leave[k].channel = "connected"
            THEN /\ log # <<>>
                 /\ log[1] = "setpresence"
                 /\ \A i \in 1..Len(log) :
                        /\ log[i] = "setactiveclient"
                            => Before(log, {"setpresence.returned",
                                            "setpresence.raised"}, i)
                        /\ log[i] = "stop"
                            => Before(log, {"setactiveclient.returned",
                                            "setactiveclient.raised"}, i)
                        /\ log[i] \in {"setpresence.returned",
                                       "setpresence.raised"}
                            => Before(log, {"setpresence"}, i)
                        /\ log[i] \in {"setactiveclient.returned",
                                       "setactiveclient.raised"}
                            => Before(log, {"setactiveclient"}, i)
                 /\ Occurrences(log, "setpresence") = 1
                 /\ Occurrences(log, "setactiveclient") <= 1
                 /\ Occurrences(log, "stop") <= 1
            ELSE log = <<>>

\* One call found the channel not connected and did nothing; another found
\* it connected and its chain has stopped the loop.
C24_Witness ==
    \E k, l \in 1..Len(leave) :
        /\ leave[k].channel # "connected"
        /\ leave[k].log = <<>>
        /\ leave[l].channel = "connected"
        /\ Len(leave[l].log) = 5
        /\ leave[l].log[5] = "stop"

\* C25 (SpecConnect): a bootstrap that fails leaves every session field
\* with the value it had before the bootstrap started.
C25_FailedBootstrapKeepsSession ==
    [][conn_pc' = "failed" => session' = session]_vars

\* Every namespace the client reads is among the decoded segments.
RequiredDecoded(d) ==
    /\ d.http = "FetchResponse"
    /\ \A ns \in Namespaces : d.segments[ns] \notin {"absent", "garbled"}

\* Every session field holds the value read from its segment.
SessionRead ==
    \A i \in 1..Len(SessionValues) :
        session[SessionValues[i].field]
            = <<SessionValues[i].ns, SessionValues[i].at>>

\* C27, as claimed (SpecConnect): whenever every required namespace is
\* among the segments that decoded, the bootstrap succeeds.
C27_DecodedSucceeds ==
    (RequiredDecoded(doc) /\ conn_pc # "start") =>
        conn_pc = "listening" /\ conn_raised = "None"

\* C27, amended (SpecConnect): whatever other segments fail to decode, the
\* bootstrap succeeds, with the session fields read from the segments
\* collected, whenever every required namespace is among the segments that
\* decoded and holds the positions the client reads and, for the self
\* entity and the conversation states, a value their schemas accept.
C27_DecodedAndValidSucceeds ==
    (/\ RequiredDecoded(doc)
     /\ \A ns \in Namespaces : doc.segments[ns] # "short"
     /\ \A ns \in {"ds:19", "ds:20"} : doc.segments[ns] # "undecodable"
     /\ conn_pc # "start") =>
        /\ conn_pc = "listening"
        /\ conn_raised = "None"
        /\ initial_data # <<>>
        /\ SessionRead

\* A segment of the page failed to decode, and the client has connected
\* with the values of the others.
C27_Witness ==
    /\ doc.http = "FetchResponse"
    /\ doc.segments["ds:1"] = "garbled"
    /\ RequiredDecoded(doc)
    /\ conn_pc = "listening"
    /\ SessionRead
    /\ Occurrences(life_log, "on_connect") = 1

\* The flows that are inside the loop of _sync.
InLoop == {f \in SyncFlows : flow[f].pc # "out"}

\* C26 (SpecFlows): at most one resync is inside its loop at a time, and
\* while a resync stands between the comparison that it made for an event
\* and the append that follows from it, the watermark and the log of the
\* event's conversation are what they were when it compared: no push and
\* no other resync has run in between.
C26_SingleWriter ==
    /\ Cardinality(InLoop) <= 1
    /\ \A f \in SyncFlows :
            flow[f].pc = "apply" =>
                LET r == flow[f]
                    event_ == r.res[r.k].event[r.i]
                IN  /\ r.seen[1].watermark = sync_timestamp
                    /\ r.seen[1].log =
                            conv_dict[event_.conversation_id].events
                    /\ FromTimestamp(event_.timestamp) > sync_timestamp

\* A resync is about to append an event while the other resync awaits its
\* response, and a push has moved the watermark since this resync was
\* called.
C26_Witness ==
    \E f, g \in SyncFlows :
        /\ f # g
        /\ flow[f].pc = "apply"
        /\ sync_pc[g].state = "awaiting"
        /\ flow[g].pc = "out"
        /\ pushed # {}
        /\ sync_pc[f].timestamp # sync_timestamp
====
